---- MODULE Spec2Model ----
\* Model of the `strings` Celery task of openrelik-worker-strings
\* (src/src/tasks.py): the loop over the task configuration and the input
\* files, the child process that runs strings(1) into the output file, the
\* progress-polling loop, and the construction of the task result.
EXTENDS Integers, Sequences, FiniteSets, TLC

\* ---------------------------------------------------------------- bounds
MaxFiles == 2        \* longest input file list
MaxLines == 1        \* most lines a child writes to its output file
MaxPolls == 2        \* most iterations of the polling loop for one child
MaxElapsed == 2      \* largest elapsed time of a progress sample, in ticks
TicksPerSecond == 3  \* clock ticks per second (total_seconds = ticks / TicksPerSecond)
MaxLiveFiles == 1    \* longest input file list of the liveness specification

\* ------------------------------------------------------- program constants
\* StringsEncoding.__members__: the names of the enumeration.
Members == {"ASCII", "UTF16LE"}

\* StringsEncoding[name].value: the --encoding argument of strings(1).
EncodingValue(name) == IF name = "ASCII" THEN "s" ELSE "l"

\* Keys a task configuration may carry: the members and one foreign name.
ConfigNames == Members \cup {"BOGUS"}

\* task_config: a dict, i.e. an ordered list of (key, value) with distinct keys.
Configs ==
  { c \in UNION { [1..n -> [name : ConfigNames, enabled : BOOLEAN]] :
                    n \in 0..Cardinality(ConfigNames) } :
      \A i, j \in DOMAIN c : i # j => c[i].name # c[j].name }

\* get_input_files(...): the resolved list of input files (file identifiers).
InputLists == { [i \in 1..n |-> i] : n \in 0..MaxFiles }

\* datetime.now() - start_time, in ticks: the wall clock may step back.
ElapsedTicks == (-1)..MaxElapsed

NoEvent == [proc |-> 0, path |-> 0, extracted_strings |-> 0, rate |-> 0, elapsed |-> 0]

VARIABLES
  task_config,    \* the task configuration, in iteration order
  input_files,    \* the resolved input files
  output_files,   \* the accumulated output list
  pc,             \* position of the task thread
  error,          \* the error the task failed with ("" while none)
  result,         \* <<>> until the task returns, then <<create_task_result(...)>>
  ei,             \* index of the current key of task_config
  fi,             \* index of the current file of input_files
  created,        \* the output files made by create_output_file, in order
  children,       \* the child processes started by Popen, in order (kernel state)
  process,        \* the Popen object: the child it names and its returncode
  spawns,         \* the (encoding, file) pairs Popen was called for, in order
  fh_open,        \* whether the `with open(...)` block is open
  written,        \* lines in the output file that is open for writing
  nevents,        \* progress events sent for the current child
  lastEvent       \* the last 'task-progress' event sent

vars == <<task_config, input_files, output_files, pc, error, result, ei, fi,
          created, children, process, spawns, fh_open, written, nevents, lastEvent>>

\* ------------------------------------------------------------ pure helpers
\* int(x) of the quotient num / den: truncation toward zero.
IntTrunc(num, den) ==
  LET an == IF num < 0 THEN 0 - num ELSE num
      ad == IF den < 0 THEN 0 - den ELSE den
      q  == an \div ad
  IN IF (num < 0) # (den < 0) THEN 0 - q ELSE q

RateCeil(extracted, ticks) ==
  IF ticks > 0 THEN (extracted * TicksPerSecond + ticks - 1) \div ticks ELSE 0

\* rate = int(extracted_strings / duration.total_seconds())
\*        if duration.total_seconds() > 0 else 0
Rate(extracted, ticks) ==
  IF ticks > 0 THEN IntTrunc(extracted * TicksPerSecond, ticks) ELSE 0

\* process.poll(): <<>> for None while the child runs, <<returncode>> once it
\* has exited.
ProcessPoll(p, c) ==
  IF p.returncode # <<>> THEN p.returncode
  ELSE IF c.status = "exited" THEN c.exit ELSE <<>>

\* The wait inside process.poll(): an exited child is reaped, and the kernel
\* forgets its exit status.
Reap(c) == IF c.status = "exited" THEN [c EXCEPT !.status = "reaped", !.exit = <<>>] ELSE c

LoopConditionNever(p, c) == FALSE

LoopConditionAlways(p, c) == TRUE

\* while process.poll() is None
LoopCondition(p, c) == ProcessPoll(p, c) = <<>>

\* display_name = f"{input_file.get('display_name')}.{encoding_name}_strings"
DisplayName(file, encoding_name) == <<file, encoding_name, "_strings">>

\* the value of `process` before the first Popen
NoProcess == [pid |-> 0, returncode |-> <<>>]

Terminated == pc \in {"returned", "failed"}

\* ------------------------------------------------------------------- Init
\* The state on entry to strings(), after get_input_files, for the given inputs.
Entry(configs, lists) ==
  /\ task_config \in configs
  /\ input_files \in lists
  /\ output_files = <<>>
  /\ pc = "for_encoding"
  /\ error = ""
  /\ result = <<>>
  /\ ei = 1
  /\ fi = 1
  /\ created = <<>>
  /\ children = <<>>
  /\ process = NoProcess
  /\ spawns = <<>>
  /\ fh_open = FALSE
  /\ written = 0
  /\ nevents = 0
  /\ lastEvent = NoEvent

Init == Entry(Configs, InputLists)

LiveInit == Entry(Configs, { l \in InputLists : Len(l) <= MaxLiveFiles })

\* ---------------------------------------------------------- task thread
\* for encoding_name, unused_encoding_enabled in task_config.items():
\*     if encoding_name not in StringsEncoding.__members__: raise RuntimeError
ForEncoding ==
  /\ pc = "for_encoding"
  /\ IF ei > Len(task_config)
       THEN /\ pc' = "finish"
            /\ UNCHANGED <<error, fi>>
       ELSE IF task_config[ei].name \notin Members
         THEN /\ pc' = "failed"
              /\ error' = "config"
              /\ UNCHANGED fi
         ELSE /\ pc' = "for_file"
              /\ fi' = 1
              /\ UNCHANGED error
  /\ UNCHANGED <<task_config, input_files, output_files, result, ei, created, children, process,
                 spawns, fh_open, written, nevents, lastEvent>>

ForFileFirstOnly ==
  /\ pc = "for_file"
  /\ IF fi > Len(input_files) \/ fi > 1
       THEN /\ pc' = "for_encoding"
            /\ ei' = ei + 1
            /\ UNCHANGED <<created, fh_open, written>>
       ELSE /\ created' = Append(created, [display_name |-> DisplayName(input_files[fi], task_config[ei].name)])
            /\ fh_open' = TRUE
            /\ written' = 0
            /\ pc' = "spawn"
            /\ UNCHANGED ei
  /\ UNCHANGED <<task_config, input_files, output_files, error, result, fi, children, process,
                 spawns, nevents, lastEvent>>

\* for input_file in input_files:
\*     output_file = create_output_file(...); with open(output_file.path, "w") as fh:
ForFile ==
  /\ pc = "for_file"
  /\ IF fi > Len(input_files)
       THEN /\ pc' = "for_encoding"
            /\ ei' = ei + 1
            /\ UNCHANGED <<created, fh_open, written>>
       ELSE /\ created' = Append(created, [display_name |-> DisplayName(input_files[fi], task_config[ei].name)])
            /\ fh_open' = TRUE
            /\ written' = 0
            /\ pc' = "spawn"
            /\ UNCHANGED ei
  /\ UNCHANGED <<task_config, input_files, output_files, error, result, fi, children, process,
                 spawns, nevents, lastEvent>>

\* process = subprocess.Popen(command, stdout=fh): the child is started.
SpawnOk ==
  /\ pc = "spawn"
  /\ children' = Append(children, [out |-> Len(created), encoding |-> EncodingValue(task_config[ei].name),
                                   path |-> input_files[fi], status |-> "running", exit |-> <<>>])
  /\ process' = [pid |-> Len(children) + 1, returncode |-> <<>>]
  /\ spawns' = Append(spawns, <<ei, fi>>)
  /\ nevents' = 0
  /\ pc' = "poll"
  /\ UNCHANGED <<task_config, input_files, output_files, error, result, ei, fi, created,
                 fh_open, written, lastEvent>>

SpawnFailsRetry ==
  /\ pc = "spawn"
  /\ Len(spawns) < 2 * Cardinality(Members) * (MaxFiles + 1)
  /\ spawns' = Append(spawns, <<ei, fi>>)
  /\ pc' = "spawn"
  /\ UNCHANGED <<task_config, input_files, output_files, error, result, ei, fi, created,
                 children, process, fh_open, written, nevents, lastEvent>>

\* subprocess.Popen raises (OSError): the with block closes fh and the
\* exception leaves the task.
SpawnFails ==
  /\ pc = "spawn"
  /\ spawns' = Append(spawns, <<ei, fi>>)
  /\ fh_open' = FALSE
  /\ pc' = "failed"
  /\ error' = "spawn"
  /\ UNCHANGED <<task_config, input_files, output_files, result, ei, fi, created,
                 children, process, written, nevents, lastEvent>>

\* while process.poll() is None: the child is seen running, the body is entered.
PollRunning ==
  /\ pc = "poll"
  /\ LoopCondition(process, children[process.pid])
  /\ nevents < MaxPolls
  /\ pc' = "body"
  /\ UNCHANGED <<task_config, input_files, output_files, error, result, ei, fi, created,
                 children, process, spawns, fh_open, written, nevents, lastEvent>>

PollExitedZeroOnly ==
  /\ pc = "poll"
  /\ ~LoopCondition(process, children[process.pid])
  /\ children' = [children EXCEPT ![process.pid] = Reap(@)]
  /\ process' = [process EXCEPT !.returncode = ProcessPoll(process, children[process.pid])]
  /\ fh_open' = FALSE
  /\ output_files' = IF ProcessPoll(process, children[process.pid]) = <<0>>
                       THEN Append(output_files, created[children[process.pid].out])
                       ELSE output_files
  /\ fi' = fi + 1
  /\ pc' = "for_file"
  /\ UNCHANGED <<task_config, input_files, error, result, ei, created, spawns,
                 written, nevents, lastEvent>>

\* process.poll() is not None: the child is reaped, the loop and the with
\* block are left, and output_files.append(output_file.to_dict()).
PollExited ==
  /\ pc = "poll"
  /\ ~LoopCondition(process, children[process.pid])
  /\ children' = [children EXCEPT ![process.pid] = Reap(@)]
  /\ process' = [process EXCEPT !.returncode = ProcessPoll(process, children[process.pid])]
  /\ fh_open' = FALSE
  /\ output_files' = Append(output_files, created[children[process.pid].out])
  /\ fi' = fi + 1
  /\ pc' = "for_file"
  /\ UNCHANGED <<task_config, input_files, error, result, ei, created, spawns,
                 written, nevents, lastEvent>>

\* One iteration of the loop body:
\*   extracted_strings = count_file_lines(output_file.path)
\*   duration = datetime.now() - start_time; rate = ...
\*   self.send_event("task-progress", data={...}); time.sleep(update_interval_s)
SendEvent ==
  /\ pc = "body"
  /\ \E ticks \in ElapsedTicks :
       lastEvent' = [proc |-> process.pid, path |-> children[process.pid].out,
                     extracted_strings |-> written,
                     rate |-> Rate(written, ticks), elapsed |-> ticks]
  /\ nevents' = nevents + 1
  /\ pc' = "poll"
  /\ UNCHANGED <<task_config, input_files, output_files, error, result, ei, fi, created,
                 children, process, spawns, fh_open, written>>

\* count_file_lines raises: the with block closes fh, the exception leaves the task.
CountLinesRaises ==
  /\ pc = "body"
  /\ fh_open' = FALSE
  /\ pc' = "failed"
  /\ error' = "count_file_lines"
  /\ UNCHANGED <<task_config, input_files, output_files, result, ei, fi, created,
                 children, process, spawns, written, nevents, lastEvent>>

\* self.send_event raises: the with block closes fh, the exception leaves the task.
SendEventRaises ==
  /\ pc = "body"
  /\ fh_open' = FALSE
  /\ pc' = "failed"
  /\ error' = "send_event"
  /\ UNCHANGED <<task_config, input_files, output_files, result, ei, fi, created,
                 children, process, spawns, written, nevents, lastEvent>>

FinishAlwaysReturns ==
  /\ pc = "finish"
  /\ pc' = "returned"
  /\ result' = <<[output_files |-> output_files, meta |-> <<>>]>>
  /\ UNCHANGED <<task_config, input_files, output_files, error, ei, fi, created, children, process,
                 spawns, fh_open, written, nevents, lastEvent>>

\* if not output_files: raise RuntimeError("No strings extracted ...")
\* return create_task_result(output_files=output_files, ...)
Finish ==
  /\ pc = "finish"
  /\ IF output_files = <<>>
       THEN /\ pc' = "failed"
            /\ error' = "empty"
            /\ UNCHANGED result
       ELSE /\ pc' = "returned"
            /\ result' = <<[output_files |-> output_files, meta |-> <<>>]>>
            /\ UNCHANGED error
  /\ UNCHANGED <<task_config, input_files, output_files, ei, fi, created, children, process,
                 spawns, fh_open, written, nevents, lastEvent>>

\* ------------------------------------------------------- child processes
\* A running strings(1) writes one more line to its standard output.
ChildWrite ==
  /\ \E i \in 1..Len(children) :
       /\ children[i].status = "running"
       /\ i = process.pid
       /\ written < MaxLines
       /\ written' = written + 1
  /\ UNCHANGED <<task_config, input_files, output_files, pc, error, result, ei, fi,
                 created, children, process, spawns, fh_open, nevents, lastEvent>>

\* A running strings(1) exits, with any exit code.
ChildExit ==
  /\ \E i \in 1..Len(children), code \in {0, 1} :
       /\ children[i].status = "running"
       /\ children' = [children EXCEPT ![i].status = "exited", ![i].exit = <<code>>]
  /\ UNCHANGED <<task_config, input_files, output_files, pc, error, result, ei, fi,
                 created, process, spawns, fh_open, written, nevents, lastEvent>>

TaskStep ==
  \/ ForEncoding
  \/ ForFile
  \/ SpawnOk
  \/ SpawnFails
  \/ PollRunning
  \/ PollExited
  \/ SendEvent
  \/ CountLinesRaises
  \/ SendEventRaises
  \/ Finish

Next ==
  \/ TaskStep
  \/ ChildWrite
  \/ ChildExit

Spec == Init /\ [][Next]_vars

\* The task thread is scheduled and each of its calls returns.
LiveSpec == LiveInit /\ [][Next]_vars /\ WF_vars(TaskStep)

\* ================================================================ claims
AllKeysValid == \A e \in DOMAIN task_config : task_config[e].name \in Members

HasInvalidKey == ~AllKeysValid

\* every key of the configuration carries a true value
AllEnabled == \A e \in DOMAIN task_config : task_config[e].enabled

\* failures raised by the collaborators, not by the task's own checks
ExternalFailures == {"spawn", "count_file_lines", "send_event"}

Running == { i \in DOMAIN children : children[i].status = "running" }

Reaped == { i \in DOMAIN children : children[i].status = "reaped" }

C2_InvalidKeyFailsFirst ==
  (HasInvalidKey /\ AllEnabled)
    => /\ spawns = <<>>
       /\ children = <<>>
       /\ created = <<>>
       /\ (Terminated => (pc = "failed" /\ error = "config"))

\* C3: a subprocess is spawned, and an output file created, for an encoding
\* only if its key is present with a true value.
C3_OnlyEnabledEncodings ==
  /\ \A i \in DOMAIN spawns : task_config[spawns[i][1]].enabled
  /\ \A k \in DOMAIN created :
       \E e \in DOMAIN task_config :
         /\ task_config[e].name = created[k].display_name[2]
         /\ task_config[e].enabled

\* C4, as stated: with an empty input list and any configuration the task
\* fails with EmptyResultError and returns no result; a result is returned
\* only when the output list is non-empty.  (Stated for the configurations
\* whose values are all true.)
C4_AsStated ==
  /\ (Terminated /\ input_files = <<>> /\ AllEnabled)
       => (pc = "failed" /\ error = "empty" /\ result = <<>>)
  /\ result # <<>> => result[1].output_files # <<>>

\* C4, amended: with an empty input list the task returns no result; it fails
\* with EmptyResultError when every key is an encoding name and with the
\* configuration error otherwise; a result is returned only when the output
\* list is non-empty.
C4_EmptyInputFails ==
  /\ (Terminated /\ input_files = <<>>)
       => /\ pc = "failed"
          /\ result = <<>>
          /\ error = IF AllKeysValid THEN "empty" ELSE "config"
  /\ result # <<>> => (pc = "returned" /\ result[1].output_files # <<>>)
  /\ pc = "returned" => (result # <<>> /\ output_files # <<>>)

C4_Witness ==
  /\ input_files = <<>>
  /\ task_config # <<>>
  /\ AllKeysValid
  /\ pc = "failed"
  /\ error = "empty"

C6_SpawnFailureIsFatal ==
  /\ \A i, j \in DOMAIN spawns : i # j => spawns[i] # spawns[j]
  /\ Len(spawns) >= Len(children)
  /\ Len(spawns) > Len(children) =>
       /\ Len(spawns) = Len(children) + 1
       /\ pc = "failed"
       /\ error = "spawn"
       /\ result = <<>>
  /\ error = "spawn" => Len(spawns) > Len(children)

C6_Witness ==
  /\ error = "spawn"
  /\ output_files # <<>>
  /\ Len(spawns) < Len(task_config) * Len(input_files)

\* C7: extraction is sequential: at most one child runs, a child is spawned
\* only after every earlier one was seen exited, the events sent since the
\* last spawn report the line count of that child's output file, and no
\* output file is written by two children.
C7_Sequential ==
  /\ Cardinality(Running) <= 1
  /\ \A i \in DOMAIN children : i < Len(children) => children[i].status = "reaped"
  /\ nevents > 0 =>
       /\ lastEvent.proc = process.pid
       /\ lastEvent.path = children[process.pid].out
       /\ pc \in {"poll", "body"} => lastEvent.extracted_strings <= written
  /\ \A i, j \in DOMAIN children : i # j => children[i].out # children[j].out

C7_Witness ==
  /\ Len(children) >= 2
  /\ children[process.pid].status = "running"
  /\ nevents > 0
  /\ lastEvent.extracted_strings > 0

\* C8: the output handle of a pair is appended once its child has been seen
\* exited, whatever the exit code: the output list is exactly the output
\* files of the reaped children, in order, and an exit code fails no task.
C8_AppendedWhateverExitCode ==
  /\ Len(output_files) = Cardinality(Reaped)
  /\ \A i \in Reaped : i <= Len(output_files) /\ output_files[i] = created[children[i].out]
  /\ pc = "failed" => error \in ExternalFailures \cup {"config", "empty"}

C8_Witness ==
  /\ pc = "returned"
  /\ process.returncode = <<1>>
  /\ Len(children) >= 2
  /\ Len(result[1].output_files) = Len(children)

\* C9: the loop body is entered only when the check sees the child running,
\* events are sent only from the loop body, and a check that sees the child
\* exited leaves the loop without an event; and if every child that runs
\* eventually exits, the task eventually terminates.
C9_LoopExits ==
  [][ /\ (pc = "poll" /\ pc' = "body") => children[process.pid].status = "running"
      /\ (pc = "poll" /\ pc' # "poll" /\ children[process.pid].status # "running")
           => (pc' = "for_file" /\ nevents' = nevents /\ lastEvent' = lastEvent
               /\ children'[process.pid].status = "reaped")
      /\ (nevents' > nevents \/ lastEvent' # lastEvent) => (pc = "body" /\ pc' = "poll")
    ]_vars

C9_PollingTerminates ==
  /\ C9_LoopExits
  /\ ((Running # {}) ~> (Running = {})) => <>Terminated

C9_Witness ==
  /\ pc = "returned"
  /\ lastEvent.proc # 0
  /\ lastEvent.proc < Len(children)

\* C10: on every exit path of the task, no child spawned by it still runs.
\* (Stated for the configurations whose values are all true.)
C10_NoChildOutlivesTask ==
  (Terminated /\ AllEnabled) => Running = {}

====
